---- MODULE Spec2Model ----
(***************************************************************************)
(* Model of the SHT3x driver (src/src/lib.rs): the command table, the      *)
(* write / delay / read sequencing of measure, status and reset against a  *)
(* nondeterministic I2C transport, the CRC-8 validator and the unit        *)
(* converters.                                                             *)
(***************************************************************************)
EXTENDS Integers, Sequences, FiniteSets, TLC

VARIABLES
    address,      \* Sht3x.address (fixed at construction)
    pc,           \* position of the driver inside the current call
    call,         \* the public operation in progress and its arguments
    events,       \* what the bus and delay collaborators have seen in this call
    buf,          \* the read buffer of the current call
    result,       \* the value returned to the caller
    data,         \* crc8 harness: the [u8; 2] argument
    crc_fwd,      \* crc8 harness: crc8(data)
    crc_rev,      \* crc8 harness: crc8 of data with its two bytes swapped
    raw,          \* converter harness: the u16 argument
    temperature,  \* converter harness: convert_temperature(raw)
    humidity,     \* converter harness: convert_humidity(raw)
    fpc           \* harness position: "input" or "applied"

vars == <<address, pc, call, events, buf, result,
          data, crc_fwd, crc_rev, raw, temperature, humidity, fpc>>

driverVars == <<address, pc, call, events, buf, result>>
crcVars == <<data, crc_fwd, crc_rev>>
convVars == <<raw, temperature, humidity>>

----------------------------------------------------------------------------
(* Machine integers *)

U8 == 0 .. 255
U16 == 0 .. 65535

RECURSIVE Xor(_, _)
\* bitwise exclusive or of two naturals (the ^ operator)
Xor(x, y) ==
    IF x = 0 THEN y
    ELSE IF y = 0 THEN x
    ELSE 2 * Xor(x \div 2, y \div 2) + ((x + y) % 2)

\* x << 1 on a u8: the bit shifted out is dropped
shl1_u8(x) == (2 * x) % 256

\* the / operator on signed integers: truncation toward zero
div_trunc(n, d) == IF n >= 0 THEN n \div d ELSE -((-n) \div d)

\* u16::to_be_bytes / u16::from_be_bytes
to_le_bytes(v) == <<v % 256, v \div 256>>
to_be_bytes(v) == <<v \div 256, v % 256>>

from_le_bytes(bs) == bs[2] * 256 + bs[1]
from_be_bytes(bs) == bs[1] * 256 + bs[2]

----------------------------------------------------------------------------
(* crc8 *)

\* the polynomial's two digits exchanged: 0x13 for 0x31
crc8_round_0x13(crc) ==
    IF crc >= 128 THEN Xor(shl1_u8(crc), 19) ELSE shl1_u8(crc)

\* one iteration of the inner loop, with 0x80 = 128 and 0x31 = 49
crc8_round(crc) ==
    IF crc >= 128 THEN Xor(shl1_u8(crc), 49) ELSE shl1_u8(crc)

RECURSIVE crc8_rounds(_, _)
crc8_rounds(crc, n) ==
    IF n = 0 THEN crc ELSE crc8_rounds(crc8_round(crc), n - 1)

RECURSIVE crc8_from(_, _, _)
crc8_from(crc, bs, i) ==
    IF i > Len(bs) THEN crc
    ELSE crc8_from(crc8_rounds(Xor(crc, bs[i]), 8), bs, i + 1)

\* the inner loop run once, after both bytes were folded in
crc8_rounds_after(bs) == crc8_rounds(Xor(Xor(255, bs[1]), bs[2]), 8)

\* crc starts at 0xff and takes the bytes in order
crc8(bs) == crc8_from(255, bs, 1)

----------------------------------------------------------------------------
(* Unit converters *)

\* the divisor 65536 for 65535
convert_temperature_div65536(r) == -4500 + div_trunc(17500 * r, 65536)

\* -4500 + (17500 * raw as i32) / 65535 in i32; the product stays below 2^31
convert_temperature(r) == -4500 + div_trunc(17500 * r, 65535)

\* the product taken in u16, without the widening cast
convert_humidity_u16(r) == ((10000 * r) % 65536) \div 65535

\* ((10000 * raw as u32) / 65535) as u16; the product stays below 2^32
convert_humidity(r) == ((10000 * r) \div 65535) % 65536

----------------------------------------------------------------------------
(* Enumerations and the command table *)

Address == {"High", "Low"}

\* self.address as u8: High = 0x45, Low = 0x44
address_as_u8(a) == CASE a = "High" -> 69 [] a = "Low" -> 68

SOFT_RESET_TIME_MS == 1

ClockStretch == {"Enabled", "Disabled"}
Repeatability == {"High", "Medium", "Low"}
Rate == {"R0_5", "R1", "R2", "R4", "R10"}

\* the durations of Low and Medium exchanged
max_duration_swapped(rpt) ==
    CASE rpt = "Low" -> 6
      [] rpt = "Medium" -> 4
      [] rpt = "High" -> 15

\* Repeatability::max_duration, in milliseconds
max_duration(rpt) ==
    CASE rpt = "Low" -> 4
      [] rpt = "Medium" -> 6
      [] rpt = "High" -> 15

SingleShot(cs, rpt) == [tag |-> "SingleShot", cs |-> cs, rpt |-> rpt]
Periodic(rate, rpt) == [tag |-> "Periodic", rate |-> rate, rpt |-> rpt]
Plain(tag) == [tag |-> tag]

Command ==
    {SingleShot(cs, rpt) : cs \in ClockStretch, rpt \in Repeatability}
    \cup {Periodic(rate, rpt) : rate \in Rate, rpt \in Repeatability}
    \cup {Plain(t) : t \in {"FetchData", "PeriodicWithART", "Break", "SoftReset",
                            "HeaterEnable", "HeaterDisable", "Status",
                            "ClearStatus"}}

\* Table 8, single shot: 0x2C06 0x2C0D 0x2C10 / 0x2400 0x240B 0x2416
single_shot_value(cs, rpt) ==
    CASE cs = "Enabled" /\ rpt = "High" -> 11270
      [] cs = "Enabled" /\ rpt = "Medium" -> 11277
      [] cs = "Enabled" /\ rpt = "Low" -> 11280
      [] cs = "Disabled" /\ rpt = "High" -> 9216
      [] cs = "Disabled" /\ rpt = "Medium" -> 9227
      [] cs = "Disabled" /\ rpt = "Low" -> 9238

\* Table 9, periodic: 0x2032 0x2024 0x202F, 0x2130 0x2126 0x212D,
\* 0x2236 0x2220 0x222B, 0x2334 0x2322 0x2329, 0x2737 0x2721 0x272A
periodic_value(rate, rpt) ==
    CASE rate = "R0_5" /\ rpt = "High" -> 8242
      [] rate = "R0_5" /\ rpt = "Medium" -> 8228
      [] rate = "R0_5" /\ rpt = "Low" -> 8239
      [] rate = "R1" /\ rpt = "High" -> 8496
      [] rate = "R1" /\ rpt = "Medium" -> 8486
      [] rate = "R1" /\ rpt = "Low" -> 8493
      [] rate = "R2" /\ rpt = "High" -> 8758
      [] rate = "R2" /\ rpt = "Medium" -> 8736
      [] rate = "R2" /\ rpt = "Low" -> 8747
      [] rate = "R4" /\ rpt = "High" -> 9012
      [] rate = "R4" /\ rpt = "Medium" -> 8994
      [] rate = "R4" /\ rpt = "Low" -> 9001
      [] rate = "R10" /\ rpt = "High" -> 10039
      [] rate = "R10" /\ rpt = "Medium" -> 10017
      [] rate = "R10" /\ rpt = "Low" -> 10026

\* Command::value
value(cmd) ==
    CASE cmd.tag = "SingleShot" -> single_shot_value(cmd.cs, cmd.rpt)
      [] cmd.tag = "Periodic" -> periodic_value(cmd.rate, cmd.rpt)
      [] cmd.tag = "FetchData" -> 57344        \* 0xE000
      [] cmd.tag = "PeriodicWithART" -> 11058  \* 0x2B32
      [] cmd.tag = "Break" -> 12435            \* 0x3093
      [] cmd.tag = "SoftReset" -> 12450        \* 0x30A2
      [] cmd.tag = "HeaterEnable" -> 12397     \* 0x306D
      [] cmd.tag = "HeaterDisable" -> 12390    \* 0x3066
      [] cmd.tag = "Status" -> 62253           \* 0xF32D
      [] cmd.tag = "ClearStatus" -> 12353      \* 0x3041

----------------------------------------------------------------------------
(* The collaborators: the I2C transport and the delay provider *)

\* how many of the sample words and sample checksums the sensor may send
NumSamples == 4

\* data words: 0x656E, 0x83D2, 0xBEEF, 0x0000, 0xFFFF
SampleWords == <<<<101, 110>>, <<131, 210>>, <<190, 239>>, <<0, 0>>, <<255, 255>>>>

\* checksum bytes: 0x07, 0xE9, 0x92, 0x81, 0xAC, the CRC-8 of the word above
\* each and a corrupted checksum after any other word
SampleChecksums == <<7, 233, 146, 129, 172>>

Words == {SampleWords[i] : i \in 1 .. NumSamples}
Checksums == {SampleChecksums[i] : i \in 1 .. NumSamples}

\* the buffers a successful read of n bytes can leave behind: a word, or two
\* words each followed by a checksum byte
Frames(n) ==
    IF n = 2 THEN Words
    ELSE {t \o <<ct>> \o h \o <<ch>> :
             t \in Words, ct \in Checksums, h \in Words, ch \in Checksums}

\* 0x65 0x6E 0x07 0x83 0xD2 0xE9
SampleFrame == <<101, 110, 7, 131, 210, 233>>

\* the buffers a failed read can leave behind: the transport stopped after
\* the first k bytes of the sample frame, the rest is still the 0 of [0; n]
PartialFrames(n) ==
    {[i \in 1 .. n |-> IF i <= k THEN SampleFrame[i] ELSE 0] : k \in 0 .. n}

\* a failed read may also have filled the whole buffer
ReadFrames(r, n) ==
    IF r = "ok" THEN Frames(n) ELSE Frames(n) \cup PartialFrames(n)

\* the values of the transport's error type E
TransportErrors == {"Nack", "ArbitrationLoss"}
Outcomes == {"ok"} \cup TransportErrors

WriteEv(addr, bytes, res) ==
    [kind |-> "write", addr |-> addr, bytes |-> bytes, len |-> Len(bytes),
     ms |-> 0, res |-> res]
ReadEv(addr, n, res) ==
    [kind |-> "read", addr |-> addr, bytes |-> <<>>, len |-> n,
     ms |-> 0, res |-> res]
DelayEv(ms) ==
    [kind |-> "delay", addr |-> 0, bytes |-> <<>>, len |-> 0,
     ms |-> ms, res |-> "ok"]

----------------------------------------------------------------------------
(* Results *)

NoResult == [kind |-> "none", value |-> "none"]
Ok(v) == [kind |-> "Ok", value |-> v]
ErrCrc == [kind |-> "Crc", value |-> "Crc"]

\* the transport's error value replaced by a fixed one
i2c_error_fixed(e) == [kind |-> "I2c", value |-> "Nack"]

\* .map_err(Error::I2c)
i2c_error(e) == [kind |-> "I2c", value |-> e]

Measurement(t, h) == [temperature |-> t, humidity |-> h]

NoCall == [op |-> "none", cs |-> "none", rpt |-> "none"]

----------------------------------------------------------------------------
(* Sht3x *)

\* Sht3x::command: the write it issues, with the transport's outcome w
command(addr, cmd, w) == WriteEv(addr, to_be_bytes(value(cmd)), w)

\* the humidity word converted from the temperature bytes
measure_check_copy_paste(b) ==
    IF b[3] # crc8(<<b[1], b[2]>>) THEN ErrCrc
    ELSE IF b[6] # crc8(<<b[4], b[5]>>) THEN ErrCrc
    ELSE Ok(Measurement(convert_temperature(from_be_bytes(<<b[1], b[2]>>)),
                        convert_humidity(from_be_bytes(<<b[1], b[2]>>))))

\* the humidity checksum left unchecked
measure_check_temperature_only(b) ==
    IF b[3] # crc8(<<b[1], b[2]>>) THEN ErrCrc
    ELSE Ok(Measurement(convert_temperature(from_be_bytes(<<b[1], b[2]>>)),
                        convert_humidity(from_be_bytes(<<b[4], b[5]>>))))

\* Sht3x::measure after a successful read: both checksums, then the conversion
measure_check(b) ==
    IF b[3] # crc8(<<b[1], b[2]>>) THEN ErrCrc
    ELSE IF b[6] # crc8(<<b[4], b[5]>>) THEN ErrCrc
    ELSE Ok(Measurement(convert_temperature(from_be_bytes(<<b[1], b[2]>>)),
                        convert_humidity(from_be_bytes(<<b[4], b[5]>>))))

\* Sht3x::measure up to the ? after self.command
Measure(cs, rpt, w) ==
    /\ pc = "idle"
    /\ call' = [op |-> "measure", cs |-> cs, rpt |-> rpt]
    /\ events' = <<command(address_as_u8(address), SingleShot(cs, rpt), w)>>
    /\ IF w = "ok"
          THEN pc' = "measure_delay" /\ result' = NoResult
          ELSE pc' = "done" /\ result' = i2c_error(w)
    /\ UNCHANGED <<address, buf, crcVars, convVars, fpc>>

\* delay.delay_ms(rpt.max_duration())
MeasureDelay ==
    /\ pc = "measure_delay"
    /\ events' = Append(events, DelayEv(max_duration(call.rpt)))
    /\ pc' = "measure_read"
    /\ UNCHANGED <<address, call, buf, result, crcVars, convVars, fpc>>

\* the read of [0; 6] and the rest of Sht3x::measure
MeasureRead ==
    /\ pc = "measure_read"
    /\ \E r \in Outcomes :
         \E bytes \in ReadFrames(r, 6) :
            /\ events' = Append(events, ReadEv(address_as_u8(address), 6, r))
            /\ buf' = bytes
            /\ result' = IF r = "ok" THEN measure_check(bytes)
                                    ELSE i2c_error(r)
    /\ pc' = "done"
    /\ UNCHANGED <<address, call, crcVars, convVars, fpc>>

\* Sht3x::reset up to the ? after self.command
Reset(w) ==
    /\ pc = "idle"
    /\ call' = [NoCall EXCEPT !.op = "reset"]
    /\ events' = <<command(address_as_u8(address), Plain("SoftReset"), w)>>
    /\ IF w = "ok"
          THEN pc' = "reset_delay" /\ result' = NoResult
          ELSE pc' = "done" /\ result' = i2c_error(w)
    /\ UNCHANGED <<address, buf, crcVars, convVars, fpc>>

\* delay.delay_ms(SOFT_RESET_TIME_MS); Ok(())
ResetDelay ==
    /\ pc = "reset_delay"
    /\ events' = Append(events, DelayEv(SOFT_RESET_TIME_MS))
    /\ result' = Ok("unit")
    /\ pc' = "done"
    /\ UNCHANGED <<address, call, buf, crcVars, convVars, fpc>>

\* Sht3x::status up to the ? after self.command
Status(w) ==
    /\ pc = "idle"
    /\ call' = [NoCall EXCEPT !.op = "status"]
    /\ events' = <<command(address_as_u8(address), Plain("Status"), w)>>
    /\ IF w = "ok"
          THEN pc' = "status_read" /\ result' = NoResult
          ELSE pc' = "done" /\ result' = i2c_error(w)
    /\ UNCHANGED <<address, buf, crcVars, convVars, fpc>>

\* the read of [0; 2] and Ok(u16::from_be_bytes(status_bytes))
StatusRead ==
    /\ pc = "status_read"
    /\ \E r \in Outcomes :
         \E bytes \in ReadFrames(r, 2) :
            /\ events' = Append(events, ReadEv(address_as_u8(address), 2, r))
            /\ buf' = bytes
            /\ result' = IF r = "ok" THEN Ok(from_be_bytes(bytes))
                                    ELSE i2c_error(r)
    /\ pc' = "done"
    /\ UNCHANGED <<address, call, crcVars, convVars, fpc>>

\* the caller takes the result; the driver keeps nothing but i2c and address
Return ==
    /\ pc = "done"
    /\ pc' = "idle"
    /\ call' = NoCall
    /\ events' = <<>>
    /\ buf' = <<>>
    /\ result' = NoResult
    /\ UNCHANGED <<address, crcVars, convVars, fpc>>

HarnessIdle ==
    /\ data = <<0, 0>> /\ crc_fwd = 0 /\ crc_rev = 0
    /\ raw = 0 /\ temperature = 0 /\ humidity = 0
    /\ fpc = "unused"

\* Sht3x::new, with either address
Init ==
    /\ address \in Address
    /\ pc = "idle"
    /\ call = NoCall
    /\ events = <<>>
    /\ buf = <<>>
    /\ result = NoResult
    /\ HarnessIdle

Next ==
    \/ \E cs \in ClockStretch, rpt \in Repeatability, w \in Outcomes :
          Measure(cs, rpt, w)
    \/ MeasureDelay
    \/ MeasureRead
    \/ \E w \in Outcomes : Reset(w)
    \/ ResetDelay
    \/ \E w \in Outcomes : Status(w)
    \/ StatusRead
    \/ Return

Spec == Init /\ [][Next]_vars

----------------------------------------------------------------------------
(* Harness for crc8: any two bytes, then one application to each order *)

DriverIdle ==
    /\ address = "Low" /\ pc = "unused" /\ call = NoCall
    /\ events = <<>> /\ buf = <<>> /\ result = NoResult

InitCrc ==
    /\ data \in [1 .. 2 -> U8]
    /\ crc_fwd = 0 /\ crc_rev = 0
    /\ raw = 0 /\ temperature = 0 /\ humidity = 0
    /\ fpc = "input"
    /\ DriverIdle

Crc8Apply ==
    /\ fpc = "input"
    /\ crc_fwd' = crc8(data)
    /\ crc_rev' = crc8(<<data[2], data[1]>>)
    /\ fpc' = "applied"
    /\ UNCHANGED <<data, convVars, driverVars>>

SpecCrc == InitCrc /\ [][Crc8Apply]_vars

(* Harness for the converters: any u16, then one application of each *)

InitConv ==
    /\ raw \in U16
    /\ temperature = 0 /\ humidity = 0
    /\ data = <<0, 0>> /\ crc_fwd = 0 /\ crc_rev = 0
    /\ fpc = "input"
    /\ DriverIdle

Convert ==
    /\ fpc = "input"
    /\ temperature' = convert_temperature(raw)
    /\ humidity' = convert_humidity(raw)
    /\ fpc' = "applied"
    /\ UNCHANGED <<raw, crcVars, driverVars>>

SpecConv == InitConv /\ [][Convert]_vars

----------------------------------------------------------------------------
(* Properties *)

\* bit i of a natural
Bit(v, i) == (v \div (2 ^ i)) % 2

RECURSIVE PolyRem(_, _)
\* remainder of the polynomial v over GF(2) on division by
\* x^8 + x^5 + x^4 + 1 (0x131 = 305), clearing bits i down to 8
PolyRem(v, i) ==
    IF i < 8 THEN v
    ELSE PolyRem(IF Bit(v, i) = 1 THEN Xor(v, 305 * (2 ^ (i - 8))) ELSE v,
                 i - 1)

\* CRC-8, polynomial 0x31, initial value 0xFF, no final XOR, MSB first, of
\* the word a b: the initial value is folded into the first byte and the
\* 16-bit message, shifted by 8, is divided in one pass
Crc8Reference(a, b) == PolyRem(Xor(a, 255) * 65536 + b * 256, 23)

MeasureCalled == call.op = "measure"
Returned == pc = "done"
AllOk == \A i \in 1 .. Len(events) : events[i].res = "ok"
Count(kind) == Cardinality({i \in 1 .. Len(events) : events[i].kind = kind})

\* the six single-shot wire codes as the two bytes on the bus
SingleShotBytes(cs, rpt) ==
    CASE cs = "Enabled" /\ rpt = "High" -> <<44, 6>>
      [] cs = "Enabled" /\ rpt = "Medium" -> <<44, 13>>
      [] cs = "Enabled" /\ rpt = "Low" -> <<44, 16>>
      [] cs = "Disabled" /\ rpt = "High" -> <<36, 0>>
      [] cs = "Disabled" /\ rpt = "Medium" -> <<36, 11>>
      [] cs = "Disabled" /\ rpt = "Low" -> <<36, 22>>

DeviceAddress == IF address = "High" THEN 69 ELSE 68

\* C1: in every call of measure the one write on the bus carries exactly
\* the two bytes of the single-shot code of (clock_stretch, repeatability),
\* most significant byte first, to the configured address (0x45 / 0x44)
C1_MeasureWireCode ==
    MeasureCalled =>
        /\ Count("write") = 1
        /\ events[1].kind = "write"
        /\ events[1].bytes = SingleShotBytes(call.cs, call.rpt)
        /\ events[1].len = 2
        /\ events[1].addr = DeviceAddress

C1_Witness ==
    /\ MeasureCalled /\ call.cs = "Disabled" /\ call.rpt = "Low"
    /\ address = "High"
    /\ events[1].bytes = <<36, 22>> /\ events[1].addr = 69

MeasureOrder == <<"write", "delay", "read">>
DurationMs(rpt) == IF rpt = "Low" THEN 4 ELSE IF rpt = "Medium" THEN 6 ELSE 15

\* C2: the events of a call of measure are a prefix of write, delay, read;
\* the delay is the repeatability's 4 / 6 / 15 ms, the read is of 6 bytes,
\* and a call that returned with no bus failure has made all three
C2_MeasureSequence ==
    MeasureCalled =>
        /\ Len(events) \in 1 .. 3
        /\ \A i \in 1 .. Len(events) : events[i].kind = MeasureOrder[i]
        /\ Len(events) >= 2 => events[2].ms = DurationMs(call.rpt)
        /\ Len(events) >= 3 => events[3].len = 6
        /\ (Returned /\ AllOk) => Len(events) = 3

C2_Witness ==
    /\ MeasureCalled /\ Returned /\ AllOk /\ call.rpt = "Medium"
    /\ Len(events) = 3 /\ events[2].ms = 6 /\ events[3].len = 6

TemperatureCrcOk == buf[3] = Crc8Reference(buf[1], buf[2])
HumidityCrcOk == buf[6] = Crc8Reference(buf[4], buf[5])

\* C3: after a successful write and a successful read, measure returns the
\* checksum error exactly when one of the two checksum bytes differs from
\* the CRC-8 of its word, and success exactly when both match
C3_ChecksumRejects ==
    (MeasureCalled /\ Returned /\ AllOk) =>
        /\ result.kind \in {"Ok", "Crc"}
        /\ result.kind = "Crc" <=> (~TemperatureCrcOk \/ ~HumidityCrcOk)
        /\ result.kind = "Ok" <=> (TemperatureCrcOk /\ HumidityCrcOk)

C3_Witness ==
    /\ MeasureCalled /\ Returned /\ AllOk
    /\ buf = <<101, 110, 7, 131, 210, 7>>
    /\ result.kind = "Crc"

Failed(i) == Len(events) >= i /\ events[i].res # "ok"

\* C4: a failed write ends measure at once with the transport's error, no
\* delay and no read; a failed read ends it with the transport's error
\* whatever the buffer holds; neither gives a Measurement or a checksum
\* error, and a bus error is returned only when the transport failed
C4_BusError ==
    MeasureCalled =>
        /\ Failed(1) =>
              /\ Len(events) = 1 /\ Returned
              /\ result.kind = "I2c" /\ result.value = events[1].res
        /\ Failed(3) =>
              /\ Returned
              /\ result.kind = "I2c" /\ result.value = events[3].res
        /\ result.kind = "I2c" => (Failed(1) \/ Failed(3))

C4_Witness ==
    /\ MeasureCalled /\ Returned /\ Failed(3)
    /\ buf = <<101, 110, 7, 131, 210, 233>>
    /\ result.kind = "I2c" /\ result.value = "ArbitrationLoss"

\* C5: a successful measure returns the temperature formula of the word
\* b[0]*256 + b[1] and the humidity formula of the word b[3]*256 + b[4];
\* for 0x656E and 0x83D2 that is 2433 and 5149
C5_MeasurementValues ==
    (MeasureCalled /\ Returned /\ result.kind = "Ok") =>
        /\ result.value.temperature =
              -4500 + (17500 * (buf[1] * 256 + buf[2])) \div 65535
        /\ result.value.humidity =
              (10000 * (buf[4] * 256 + buf[5])) \div 65535
        /\ (buf[1] = 101 /\ buf[2] = 110) => result.value.temperature = 2433
        /\ (buf[4] = 131 /\ buf[5] = 210) => result.value.humidity = 5149

C5_Witness ==
    /\ MeasureCalled /\ Returned
    /\ call.cs = "Disabled" /\ call.rpt = "High"
    /\ Len(events) = 3
    /\ events[1].bytes = <<36, 0>> /\ events[2].ms = 15 /\ events[3].len = 6
    /\ buf = <<101, 110, 7, 131, 210, 233>>
    /\ result.kind = "Ok"
    /\ result.value = Measurement(2433, 5149)

Applied == fpc = "applied"

\* C6: crc8 of every two bytes is the CRC-8 with polynomial 0x31, initial
\* value 0xFF, no final XOR, MSB first; crc8([0xBE, 0xEF]) = 0x92
C6_Crc8IsCrc8 ==
    Applied =>
        /\ crc_fwd = Crc8Reference(data[1], data[2])
        /\ crc_fwd \in U8
        /\ data = <<190, 239>> => crc_fwd = 146

C6_Witness == Applied /\ data = <<190, 239>> /\ crc_fwd = 146

\* C7: convert_temperature(raw) is -4500 plus the quotient of 17500 * raw
\* by 65535 truncated toward zero, the product fits in an i32, the result is
\* in [-4500, 13000] with -4500 at raw = 0 and 13000 at raw = 65535
C7_Temperature ==
    Applied =>
        LET q == temperature + 4500 IN
        /\ q >= 0
        /\ 65535 * q <= 17500 * raw
        /\ 17500 * raw < 65535 * (q + 1)
        /\ 17500 * raw <= 2147483647
        /\ temperature \in -4500 .. 13000
        /\ raw = 0 => temperature = -4500
        /\ raw = 65535 => temperature = 13000

C7_Witness == Applied /\ raw = 32768 /\ temperature = 4250

\* C8: convert_humidity(raw) is the quotient of 10000 * raw by 65535
\* truncated toward zero, lies in [0, 10000] and so in 16 bits, with 0 at
\* raw = 0 and 10000 at raw = 65535
C8_Humidity ==
    Applied =>
        /\ humidity \in 0 .. 10000
        /\ 65535 * humidity <= 10000 * raw
        /\ 10000 * raw < 65535 * (humidity + 1)
        /\ raw = 0 => humidity = 0
        /\ raw = 65535 => humidity = 10000

C8_Witness == Applied /\ raw = 65535 /\ humidity = 10000

\* C9: status makes one write of [0xF3, 0x2D] and then one read of 2 bytes,
\* returns them as a big-endian word and never a checksum error; reset makes
\* one write of [0x30, 0xA2], then a delay of 1 ms, no read, and returns
\* success; a failed command write ends either with a bus error at once
C9_StatusAndReset ==
    /\ call.op = "status" =>
          /\ Len(events) \in 1 .. 2
          /\ events[1] = WriteEv(DeviceAddress, <<243, 45>>, events[1].res)
          /\ Len(events) = 2 => events[2] = ReadEv(DeviceAddress, 2, events[2].res)
          /\ result.kind # "Crc"
          /\ (Returned /\ AllOk) =>
                /\ Len(events) = 2
                /\ result.kind = "Ok"
                /\ result.value = buf[1] * 256 + buf[2]
    /\ call.op = "reset" =>
          /\ Len(events) \in 1 .. 2
          /\ events[1] = WriteEv(DeviceAddress, <<48, 162>>, events[1].res)
          /\ Len(events) = 2 => events[2] = DelayEv(1)
          /\ Count("read") = 0
          /\ (Returned /\ AllOk) =>
                /\ Len(events) = 2
                /\ result.kind = "Ok" /\ result.value = "unit"
    /\ (call.op \in {"status", "reset"} /\ Failed(1)) =>
          /\ Len(events) = 1 /\ Returned
          /\ result.kind = "I2c" /\ result.value = events[1].res

C9_Witness ==
    /\ call.op = "status" /\ Returned /\ AllOk
    /\ buf = <<131, 210>>
    /\ result.kind = "Ok" /\ result.value = 33746

\* C10 as stated: the checksums of a word and of the word with its two
\* distinct bytes swapped differ
C10_OrderSensitive ==
    (Applied /\ data[1] # data[2]) => crc_fwd # crc_rev

\* C10 as amended: the checksums of a word and of the word with its two
\* distinct bytes swapped differ, except that they are equal exactly when
\* the two bytes differ by 0xEF
C10_OrderSensitiveExcept0xEF ==
    (Applied /\ data[1] # data[2]) =>
        (crc_fwd = crc_rev <=> Xor(data[1], data[2]) = 239)

C10_Witness ==
    /\ Applied /\ data = <<239, 190>>
    /\ crc_rev = 146 /\ crc_fwd # 146

====
